---- MODULE Spec2Model ----
(***************************************************************************)
(* Road-maintenance decision pipeline of the lidar-backend:                *)
(*   seed script / upload  ->  work-order rule engine  ->  budget          *)
(*   simulation, and before/after repair verification.                     *)
(*                                                                         *)
(* Numbers.  The program computes with floats; the model uses exact        *)
(* fixed-point integers and, for percentages that are quotients, exact     *)
(* fractions.  Units:                                                      *)
(*   depths            millimetres                                         *)
(*   damaged area      1/PctScale of a percent                             *)
(*   CSV damaged area  1/CsvScale (the CSV holds a decimal fraction)       *)
(*   volumes           1/VolScale of a cubic metre                         *)
(*   money             1/MoneyScale of a rupee                             *)
(***************************************************************************)
EXTENDS Integers, Sequences, FiniteSets, TLC

VARIABLES
    csv,          \* the rows of the CSV file the seed script reads
    scans,        \* table lidar_scans
    metrics,      \* table lidar_metrics
    workOrders,   \* table maintenance_work_orders, in insertion order
    alerts,       \* table alerts, in insertion order
    perfLog,      \* table contractor_performance_log, in insertion order
    seedRuns,     \* completed runs of the seed script
    uploads,      \* uuids handed out by upload_lidar so far
    bPc,          \* budget_simulate: position of the running request
    bBudget,      \* budget_simulate: parameter budget
    bOrders,      \* budget_simulate: local sorted_orders
    bIdx,         \* budget_simulate: index of the for loop in sorted_orders
    bSpent,       \* budget_simulate: local spent
    bSelected,    \* budget_simulate: local selected
    artifact,     \* scoring service: what the pickle file at MODEL_PATH holds
    _predictor,   \* scoring service: the global _predictor of api/main.py
    calls,        \* scoring service: predict calls so far, raw input and outcome
    response      \* what the step just taken returned or printed (NoResponse: nothing)

vars == <<csv, scans, metrics, workOrders, alerts, perfLog, seedRuns, uploads,
          bPc, bBudget, bOrders, bIdx, bSpent, bSelected,
          artifact, _predictor, calls, response>>

dbVars == <<scans, metrics, workOrders, alerts, perfLog>>
budgetVars == <<bPc, bBudget, bOrders, bIdx, bSpent, bSelected>>
scoreVars == <<artifact, _predictor, calls>>

-----------------------------------------------------------------------------
(* Units and bounds *)

PctScale == 10
CsvScale == 1000
VolScale == 1500
MoneyScale == 1000

MaxRows == 2       \* rows of a CSV file
MaxPending == 3    \* rows of a CSV file seeded before budget simulations
MaxSeedRuns == 2   \* runs of the seed script
MaxUploads == 1    \* accepted uploads
MaxLogs == 2       \* verifications that add a log entry
MaxCalls == 2      \* predict calls of the scoring service

RATE_PER_M3 == 15000
DEFAULT_TRAFFIC_WEIGHT == 1

None == [none |-> TRUE]

\* The step returned nothing to a caller.
NoResponse == [kind |-> "none"]

Max(a, b) == IF a >= b THEN a ELSE b
Min(a, b) == IF a <= b THEN a ELSE b

-----------------------------------------------------------------------------
(* workorder_engine.py *)

\* The trigger with the thresholds themselves included.
evaluate_work_order_inclusive(m) ==
    \/ m.max_pothole_depth_mm >= 80
    \/ m.damaged_area_percent >= 2 * PctScale
    \/ m.avg_rut_depth_mm >= 12

\* The trigger without the rut depth test.
evaluate_work_order_without_rut(m) ==
    \/ m.max_pothole_depth_mm > 80
    \/ m.damaged_area_percent > 2 * PctScale

evaluate_work_order(m) ==
    \/ m.max_pothole_depth_mm > 80
    \/ m.damaged_area_percent > 2 * PctScale
    \/ m.avg_rut_depth_mm > 12

\* The classification with the test for high ahead of the test for critical.
classify_severity_high_first(max_pothole_depth_mm, damaged_area_percent) ==
    IF max_pothole_depth_mm > 80
    THEN "high"
    ELSE IF max_pothole_depth_mm > 120 \/ damaged_area_percent > 5 * PctScale
    THEN "critical"
    ELSE IF 1 * PctScale <= damaged_area_percent /\ damaged_area_percent <= 2 * PctScale
    THEN "medium"
    ELSE "low"

\* The classification with medium reaching up to a damaged area of 5 %.
classify_severity_medium_to_five(max_pothole_depth_mm, damaged_area_percent) ==
    IF max_pothole_depth_mm > 120 \/ damaged_area_percent > 5 * PctScale
    THEN "critical"
    ELSE IF max_pothole_depth_mm > 80
    THEN "high"
    ELSE IF 1 * PctScale <= damaged_area_percent /\ damaged_area_percent <= 5 * PctScale
    THEN "medium"
    ELSE "low"

classify_severity(max_pothole_depth_mm, damaged_area_percent) ==
    IF max_pothole_depth_mm > 120 \/ damaged_area_percent > 5 * PctScale
    THEN "critical"
    ELSE IF max_pothole_depth_mm > 80
    THEN "high"
    ELSE IF 1 * PctScale <= damaged_area_percent /\ damaged_area_percent <= 2 * PctScale
    THEN "medium"
    ELSE "low"

get_recommended_action(severity) ==
    IF severity = "critical" THEN "reconstruction"
    ELSE IF severity = "high" THEN "overlay"
    ELSE "patch"

\* The SLA table with the days of critical and high exchanged.
get_sla_days_exchanged(severity) ==
    [critical |-> 15, high |-> 7, medium |-> 30, low |-> 60][severity]

get_sla_days(severity) ==
    [critical |-> 7, high |-> 15, medium |-> 30, low |-> 60][severity]

\* vol * RATE_PER_M3, in money units
EstimatedCost(vol) == (vol * RATE_PER_M3 * MoneyScale) \div VolScale

\* The constructor with the order already started.
MaintenanceWorkOrderInProgress(road_id, scan_id, m) ==
    LET severity == classify_severity(m.max_pothole_depth_mm, m.damaged_area_percent)
        vol == m.pothole_total_volume_m3
    IN [id |-> None,
        road_id |-> road_id,
        scan_id |-> scan_id,
        severity |-> severity,
        estimated_repair_volume_m3 |-> vol,
        estimated_cost |-> EstimatedCost(vol),
        recommended_action |-> get_recommended_action(severity),
        sla_days |-> get_sla_days(severity),
        status |-> "in-progress",
        created_at |-> None]

\* The MaintenanceWorkOrder object as constructed: id and created_at are column
\* defaults, not yet assigned (None) until the row is flushed.
MaintenanceWorkOrder(road_id, scan_id, m) ==
    LET severity == classify_severity(m.max_pothole_depth_mm, m.damaged_area_percent)
        vol == m.pothole_total_volume_m3
    IN [id |-> None,
        road_id |-> road_id,
        scan_id |-> scan_id,
        severity |-> severity,
        estimated_repair_volume_m3 |-> vol,
        estimated_cost |-> EstimatedCost(vol),
        recommended_action |-> get_recommended_action(severity),
        sla_days |-> get_sla_days(severity),
        status |-> "pending",
        created_at |-> None]

\* The engine without its early return: a work order for every scan.
create_work_order_always(road_id, scan_id, m) == MaintenanceWorkOrder(road_id, scan_id, m)

create_work_order_if_needed(road_id, scan_id, m) ==
    IF ~evaluate_work_order(m)
    THEN None
    ELSE MaintenanceWorkOrder(road_id, scan_id, m)

-----------------------------------------------------------------------------
(* Database rows and queries *)

\* select(...).where(scan_id == ...): the matching rows of lidar_metrics
MetricsOf(tbl, scan_id) == {i \in DOMAIN tbl : tbl[i].scan_id = scan_id}

\* Result.scalar_one_or_none(): the row, None without one
ScalarOneOrNone(tbl, rows) ==
    IF rows = {} THEN None ELSE tbl[CHOOSE i \in rows : \A j \in rows : i <= j]

ScanExists(tbl, scan_id) == \E s \in tbl : s.id = scan_id

\* INSERT of a work order: the column defaults uuid4_str and datetime.utcnow
\* are evaluated now; n is the number of the insert.
FlushWorkOrder(wo, n) == [wo EXCEPT !.id = [uuid |-> n], !.created_at = n]

Alert(road_id, work_order_id, severity) ==
    [road_id |-> road_id,
     work_order_id |-> work_order_id,
     alert_type |-> "work_order_created",
     severity |-> severity]

\* The part shared by upload_lidar and run_sync:
\*     wo = create_work_order_if_needed(session, road_id, scan_id, metrics)
\*     if wo: session.add(Alert(road_id=road_id, work_order_id=wo.id, ...))
\* The alert reads wo.id when it is constructed, before any flush.
AddWorkOrderAndAlert(db, road_id, scan_id, m) ==
    LET wo == create_work_order_if_needed(road_id, scan_id, m)
    IN IF wo = None
       THEN db
       ELSE [db EXCEPT
               !.workOrders = Append(@, FlushWorkOrder(wo, Len(@) + 1)),
               !.alerts = Append(@, Alert(road_id, wo.id, wo.severity))]

-----------------------------------------------------------------------------
(* scripts/seed_from_csv.py *)

\* pct(val): the CSV holds a decimal fraction (0.0114 = 1.14%); a value of 1 or
\* more is taken to be a percentage already.  val is in 1/CsvScale, the result
\* in 1/PctScale percent.
pct(val) ==
    IF val # 0 /\ val < CsvScale
    THEN (val * 100 * PctScale) \div CsvScale
    ELSE (val * PctScale) \div CsvScale

\* scan_id of row number i (enumerate counts from 0): the column, or
\* f"seed-{road_id}-{i}" when the column is empty
SeedScanId(row, i) ==
    IF row.scan_id = "" THEN <<"seed", row.road_id, i>> ELSE <<"csv", row.scan_id, 0>>

\* The body of the for loop for one row.
SeedRow(db, row, i) ==
    IF row.road_id = ""
    THEN db
    ELSE
      LET road_id == row.road_id
          scan_id == SeedScanId(row, i)
          db1 == IF ScanExists(db.scans, scan_id)
                 THEN db
                 ELSE [db EXCEPT !.scans = @ \cup
                          {[id |-> scan_id, road_id |-> road_id, status |-> "completed"]}]
          db2 == IF MetricsOf(db1.metrics, scan_id) # {}
                 THEN db1
                 ELSE [db1 EXCEPT !.metrics = Append(@,
                          [road_id |-> road_id,
                           scan_id |-> scan_id,
                           max_pothole_depth_mm |-> row.max_pothole_depth_mm,
                           damaged_area_percent |-> pct(row.damaged_area_percent),
                           avg_rut_depth_mm |-> row.avg_rut_depth_mm,
                           pothole_total_volume_m3 |-> row.pothole_total_volume_m3])]
          metrics_obj == ScalarOneOrNone(db2.metrics, MetricsOf(db2.metrics, scan_id))
      IN IF metrics_obj = None
         THEN db2
         ELSE AddWorkOrderAndAlert(db2, road_id, scan_id, metrics_obj)

\* The for loop over the rows from row number i + 1 on.
RECURSIVE SeedRows(_, _, _)
SeedRows(db, rows, i) ==
    IF i >= Len(rows) THEN db ELSE SeedRows(SeedRow(db, rows[i + 1], i), rows, i + 1)

Db == [scans |-> scans, metrics |-> metrics, workOrders |-> workOrders, alerts |-> alerts]

\* One run of the script: every row in one transaction, one commit at the end.
run_sync ==
    /\ seedRuns < MaxSeedRuns
    /\ LET db == SeedRows(Db, csv, 0)
       IN /\ scans' = db.scans
          /\ metrics' = db.metrics
          /\ workOrders' = db.workOrders
          /\ alerts' = db.alerts
    /\ seedRuns' = seedRuns + 1
    /\ response' = [kind |-> "seed", printed |-> "Seeded"]
    /\ UNCHANGED <<csv, perfLog, uploads, budgetVars, scoreVars>>

-----------------------------------------------------------------------------
(* api/lidar_routes.py: POST /lidar/upload *)

Roads == {"R1", "R2"}
Extensions == {"xyz", "laz", "txt"}

\* metrics_dict of upload_lidar: the placeholder metrics of an uploaded scan
UploadMetrics(road_id, scan_id) ==
    [road_id |-> road_id,
     scan_id |-> scan_id,
     max_pothole_depth_mm |-> 0,
     damaged_area_percent |-> 0,
     avg_rut_depth_mm |-> 0,
     pothole_total_volume_m3 |-> 0]

upload_lidar(road_id, ext, too_large) ==
    /\ uploads < MaxUploads
    /\ IF too_large
       THEN /\ response' = [kind |-> "upload", status |-> 413]
            /\ UNCHANGED <<dbVars, uploads>>
       ELSE IF ext \notin {"xyz", "las", "laz"}
       THEN /\ response' = [kind |-> "upload", status |-> 400]
            /\ UNCHANGED <<dbVars, uploads>>
       ELSE LET scan_id == <<"uuid", "", uploads + 1>>
                m == UploadMetrics(road_id, scan_id)
                db0 == [Db EXCEPT
                          !.scans = @ \cup
                              {[id |-> scan_id, road_id |-> road_id, status |-> "completed"]},
                          !.metrics = Append(@, m)]
                db == AddWorkOrderAndAlert(db0, road_id, scan_id, m)
            IN /\ scans' = db.scans
               /\ metrics' = db.metrics
               /\ workOrders' = db.workOrders
               /\ alerts' = db.alerts
               /\ uploads' = uploads + 1
               /\ response' = [kind |-> "upload", status |-> 200, scan_id |-> scan_id,
                               road_id |-> road_id, scan_status |-> "completed"]
               /\ UNCHANGED perfLog
    /\ UNCHANGED <<csv, seedRuns, budgetVars, scoreVars>>

-----------------------------------------------------------------------------
(* api/budget_routes.py: GET /budget/simulate *)

SEVERITY_WEIGHT == [critical |-> 4, high |-> 3, medium |-> 2, low |-> 1]

\* max(0.01, volume): 0.01 cubic metres in volume units
MinPriorityVolume == VolScale \div 100

priority(wo) ==
    LET sw == IF wo.severity \in DOMAIN SEVERITY_WEIGHT
              THEN SEVERITY_WEIGHT[wo.severity] ELSE 1
    IN sw * DEFAULT_TRAFFIC_WEIGHT * Max(MinPriorityVolume, wo.estimated_repair_volume_m3)

\* The place of items[i] in sorted(items, key=..., reverse=True): after every
\* item of a greater key, and after the earlier items of the same key (the
\* sort is stable, reverse=True included).
RankDesc(keys, i) ==
    1 + Cardinality({j \in DOMAIN keys :
                        keys[j] > keys[i] \/ (keys[j] = keys[i] /\ j < i)})

SortedDesc(items, keys) ==
    [p \in 1..Len(items) |-> items[CHOOSE i \in 1..Len(items) : RankDesc(keys, i) = p]]

\* The filter that leaves out completed orders only.
IsNotCompleted(wo) == wo.status # "completed"

IsPending(wo) == wo.status = "pending"

\* select(MaintenanceWorkOrder).where(status == "pending")
\*     .order_by(created_at.desc())
PendingOrders(tbl) ==
    LET rows == SelectSeq(tbl, IsPending)
    IN SortedDesc(rows, [i \in 1..Len(rows) |-> rows[i].created_at])

\* The query without the sort by priority.
SortedOrdersAsQueried(orders) == orders

\* sorted(orders, key=priority, reverse=True)
SortedOrders(orders) ==
    SortedDesc(orders, [i \in 1..Len(orders) |-> priority(orders[i])])

\* round(x, 2) of an amount of money: to the nearest 1/100 rupee, halves to even
RoundMoney2(x) ==
    LET unit == MoneyScale \div 100
        q == x \div unit
        r == x % unit
    IN unit * (IF 2 * r < unit THEN q
               ELSE IF 2 * r > unit THEN q + 1
               ELSE IF q % 2 = 0 THEN q ELSE q + 1)

Budgets == {-50 * MoneyScale, 0, 140 * MoneyScale, 140 * MoneyScale + 4, 1000 * MoneyScale}

\* The test without the running total: the cost alone against the budget.
FitsIgnoringSpent(spent, cost, budget) == cost <= budget

\* The test of the running total alone, before the cost is added.
FitsBeforeAdding(spent, cost, budget) == spent <= budget

\* if spent + wo.estimated_cost <= budget
Fits(spent, cost, budget) == spent + cost <= budget

\* The query and the sort, up to the head of the for loop.
BudgetQuery(budget) ==
    /\ bPc = "idle"
    /\ bBudget' = budget
    /\ bOrders' = SortedOrders(PendingOrders(workOrders))
    /\ bSpent' = 0
    /\ bSelected' = <<>>
    /\ bIdx' = 1
    /\ bPc' = "loop"
    /\ response' = NoResponse
    /\ UNCHANGED <<csv, dbVars, seedRuns, uploads, scoreVars>>

SelectedEntry(wo) ==
    [work_order_id |-> wo.id,
     road_id |-> wo.road_id,
     severity |-> wo.severity,
     estimated_cost |-> wo.estimated_cost,
     recommended_action |-> wo.recommended_action]

\* The loop with continue in place of break: an order that does not fit is skipped
\* and the loop goes on to the next one.
BudgetIterateSkip ==
    /\ bPc = "loop"
    /\ bIdx <= Len(bOrders)
    /\ LET wo == bOrders[bIdx]
       IN IF Fits(bSpent, wo.estimated_cost, bBudget)
          THEN /\ bSpent' = bSpent + wo.estimated_cost
               /\ bSelected' = Append(bSelected, SelectedEntry(wo))
          ELSE UNCHANGED <<bSpent, bSelected>>
    /\ bIdx' = bIdx + 1
    /\ bPc' = "loop"
    /\ response' = NoResponse
    /\ UNCHANGED <<csv, dbVars, seedRuns, uploads, bBudget, bOrders, scoreVars>>

\* The loop reading the pending orders again at every iteration.
BudgetIterateRequery ==
    /\ bPc = "loop"
    /\ LET orders == SortedOrders(PendingOrders(workOrders))
       IN /\ bIdx <= Len(orders)
          /\ bOrders' = orders
          /\ IF Fits(bSpent, orders[bIdx].estimated_cost, bBudget)
             THEN /\ bSpent' = bSpent + orders[bIdx].estimated_cost
                  /\ bSelected' = Append(bSelected, SelectedEntry(orders[bIdx]))
                  /\ bIdx' = bIdx + 1
                  /\ bPc' = "loop"
             ELSE /\ bPc' = "break"
                  /\ UNCHANGED <<bSpent, bSelected, bIdx>>
    /\ response' = NoResponse
    /\ UNCHANGED <<csv, dbVars, seedRuns, uploads, bBudget, scoreVars>>

\* One iteration of `for wo in sorted_orders`.
BudgetIterate ==
    /\ bPc = "loop"
    /\ bIdx <= Len(bOrders)
    /\ LET wo == bOrders[bIdx]
       IN IF Fits(bSpent, wo.estimated_cost, bBudget)
          THEN /\ bSpent' = bSpent + wo.estimated_cost
               /\ bSelected' = Append(bSelected, SelectedEntry(wo))
               /\ bIdx' = bIdx + 1
               /\ bPc' = "loop"
          ELSE /\ bPc' = "break"
               /\ UNCHANGED <<bSpent, bSelected, bIdx>>
    /\ response' = NoResponse
    /\ UNCHANGED <<csv, dbVars, seedRuns, uploads, bBudget, bOrders, scoreVars>>

\* The loop is over (exhausted or left by break): the response.
BudgetReturn ==
    /\ \/ bPc = "break"
       \/ bPc = "loop" /\ bIdx > Len(bOrders)
    /\ response' = [kind |-> "budget",
                    status |-> 200,
                    budget |-> bBudget,
                    spent |-> RoundMoney2(bSpent),
                    remaining |-> RoundMoney2(bBudget - bSpent),
                    work_orders_count |-> Len(bSelected),
                    recommended_roads |-> {bSelected[i].road_id : i \in 1..Len(bSelected)},
                    work_orders |-> bSelected]
    /\ bPc' = "idle"
    /\ bBudget' = 0
    /\ bOrders' = <<>>
    /\ bIdx' = 1
    /\ bSpent' = 0
    /\ bSelected' = <<>>
    /\ UNCHANGED <<csv, dbVars, seedRuns, uploads, scoreVars>>

-----------------------------------------------------------------------------
(* lidar/verification.py and POST /lidar/verify-repair *)

RECURSIVE GCD(_, _)
GCD(a, b) == IF b = 0 THEN a ELSE GCD(b, a % b)

Abs(a) == IF a < 0 THEN -a ELSE a

\* The fraction n/d (d # 0) in lowest terms with a positive denominator.
Frac(n, d) ==
    LET g == GCD(Abs(n), Abs(d))
        sgn == IF d < 0 THEN -1 ELSE 1
    IN [n |-> sgn * (n \div g), d |-> sgn * (d \div g)]

FracLt(x, y) == x.n * y.d < y.n * x.d
FracLe(x, y) == x.n * y.d <= y.n * x.d
FracMul(x, y) == Frac(x.n * y.n, x.d * y.d)

ZeroDivisionError == [raised |-> "ZeroDivisionError"]

\* a / b on floats
FloatDiv(a, b) == IF b = 0 THEN ZeroDivisionError ELSE Frac(a, b)

\* The clamp without its upper end: max(0, reduction)
Clip0(reduction) == IF FracLt(Frac(0, 1), reduction) THEN reduction ELSE Frac(0, 1)

\* max(0, min(100, reduction)): min keeps 100 unless reduction < 100, max
\* keeps 0 unless the result > 0
Clip0To100(reduction) ==
    LET capped == IF FracLt(reduction, Frac(100, 1)) THEN reduction ELSE Frac(100, 1)
    IN IF FracLt(Frac(0, 1), capped) THEN capped ELSE Frac(0, 1)

\* The special case for negative volumes only.
NoBaselineStrict(before_volume) == before_volume < 0

\* if before_volume <= 0
NoBaseline(before_volume) == before_volume <= 0

\* The quality score without the penalty.
QualityUnpenalised(improvement_percent) == improvement_percent

\* improvement_percent if improvement_percent >= 90 else improvement_percent * 0.9
QualityScore(improvement_percent) ==
    IF FracLe(Frac(90, 1), improvement_percent)
    THEN improvement_percent
    ELSE FracMul(improvement_percent, Frac(9, 10))

\* The log entry verify_repair adds to the session, or the exception it raises.
verify_repair(road_id, before_volume, after_volume, contractor_id, verified_by) ==
    LET ratio == FloatDiv(before_volume - after_volume, before_volume)
        reduction == FracMul(ratio, Frac(100, 1))
        improvement == Clip0To100(reduction)
        quality == QualityScore(improvement)
        scores == IF NoBaseline(before_volume)
                  THEN [improvement_percent |-> Frac(100, 1), quality_score |-> Frac(100, 1)]
                  ELSE IF ratio = ZeroDivisionError
                  THEN ZeroDivisionError
                  ELSE [improvement_percent |-> improvement, quality_score |-> quality]
    IN IF scores = ZeroDivisionError
       THEN ZeroDivisionError
       ELSE [road_id |-> road_id,
             contractor_id |-> contractor_id,
             before_volume |-> before_volume,
             after_volume |-> after_volume,
             improvement_percent |-> scores.improvement_percent,
             quality_score |-> scores.quality_score,
             verified_by |-> verified_by]

\* The flag with 90 itself included.
is_contractor_flagged_inclusive(improvement_percent) ==
    FracLe(improvement_percent, Frac(90, 1))

is_contractor_flagged(improvement_percent) == FracLt(improvement_percent, Frac(90, 1))

\* A session that keeps a record only when the repair is not flagged.
SessionAddUnlessFlagged(tbl, log) ==
    IF is_contractor_flagged(log.improvement_percent) THEN tbl ELSE Append(tbl, log)

\* db_session.add(log), written by the commit of the request
SessionAdd(tbl, log) == Append(tbl, log)

\* round(x, 2) of a fraction x >= 0, in hundredths; halves to even
Round2(x) ==
    LET num == x.n * 100
        q == num \div x.d
        r == num % x.d
    IN IF 2 * r < x.d THEN q
       ELSE IF 2 * r > x.d THEN q + 1
       ELSE IF q % 2 = 0 THEN q ELSE q + 1

\* The scan ids a request can name: the stored ones and one that is not stored.
RequestScanIds == {s.id : s \in scans} \cup {<<"csv", "missing", 0>>}

verify_repair_endpoint(road_id, before_scan_id, after_scan_id) ==
    /\ Len(perfLog) < MaxLogs
    /\ LET bm == ScalarOneOrNone(metrics, MetricsOf(metrics, before_scan_id))
           am == ScalarOneOrNone(metrics, MetricsOf(metrics, after_scan_id))
       IN IF bm = None \/ am = None
          THEN /\ response' = [kind |-> "verify", status |-> 404]
               /\ UNCHANGED perfLog
          ELSE LET log == verify_repair(road_id, bm.pothole_total_volume_m3,
                                        am.pothole_total_volume_m3, None, None)
               IN IF log = ZeroDivisionError
                  THEN /\ response' = [kind |-> "verify", status |-> 500]
                       /\ UNCHANGED perfLog
                  ELSE /\ perfLog' = SessionAdd(perfLog, log)
                       /\ response' =
                            [kind |-> "verify",
                             status |-> 200,
                             road_id |-> road_id,
                             before_volume_m3 |-> log.before_volume,
                             after_volume_m3 |-> log.after_volume,
                             improvement_percent |-> Round2(log.improvement_percent),
                             quality_score |-> Round2(log.quality_score),
                             contractor_flagged |->
                                 is_contractor_flagged(log.improvement_percent)]
    /\ UNCHANGED <<csv, scans, metrics, workOrders, alerts, seedRuns, uploads, budgetVars, scoreVars>>

-----------------------------------------------------------------------------
(* Cibil_Score_Model: road_cibil_scoring.py and api/road_cibil_inference.py *)

\* Distress values are in 1/ValueScale of their unit, blend and PDI weights in
\* 1/WeightScale, scores in hundredths once rounded to 2 decimals.
ValueScale == 10
WeightScale == 100

DISTRESS_COLS ==
    <<"iri_value", "alligator_cracking_pct", "potholes_per_km", "rutting_depth_mm",
      "cracks_longitudinal_pct", "cracks_transverse_per_km", "raveling_pct",
      "edge_breaking_pct", "patches_per_km", "pothole_avg_depth_cm">>

DistressNames == {DISTRESS_COLS[i] : i \in DOMAIN DISTRESS_COLS}

DISTRESS_MAX ==
    [iri_value |-> 10, alligator_cracking_pct |-> 40, potholes_per_km |-> 30,
     rutting_depth_mm |-> 40, cracks_longitudinal_pct |-> 60,
     cracks_transverse_per_km |-> 25, raveling_pct |-> 45, edge_breaking_pct |-> 50,
     patches_per_km |-> 20, pothole_avg_depth_cm |-> 15]

PDI_WEIGHTS ==
    [iri_value |-> 22, alligator_cracking_pct |-> 18, potholes_per_km |-> 14,
     rutting_depth_mm |-> 12, cracks_longitudinal_pct |-> 8,
     cracks_transverse_per_km |-> 7, raveling_pct |-> 7, edge_breaking_pct |-> 6,
     patches_per_km |-> 4, pothole_avg_depth_cm |-> 2]

FracAdd(x, y) == Frac(x.n * y.d + y.n * x.d, x.d * y.d)

\* np.clip(x, lo, hi) and Series.clip(lo, hi) on a fraction
np_clip(x, lo, hi) ==
    IF FracLt(x, Frac(lo, 1)) THEN Frac(lo, 1)
    ELSE IF FracLt(Frac(hi, 1), x) THEN Frac(hi, 1)
    ELSE x

\* A score of hundredths as a fraction.
Hundredths(n) == Frac(n, 100)

\* _clip_normalise without the ceiling: only negative values are clipped.
_clip_normalise_unbounded(value, max_val) ==
    Frac(Max(value, 0), max_val * ValueScale)

\* (series.clip(lower=0, upper=max_val) / max_val)
_clip_normalise(value, max_val) ==
    Frac(Min(Max(value, 0), max_val * ValueScale), max_val * ValueScale)

\* weighted_sum after the first k columns of the weights
RECURSIVE WeightedSum(_, _, _, _)
WeightedSum(df, weights, distress_max, k) ==
    IF k = 0
    THEN Frac(0, 1)
    ELSE LET col == DISTRESS_COLS[k]
         IN FracAdd(WeightedSum(df, weights, distress_max, k - 1),
                    FracMul(Frac(weights[col], WeightScale),
                            _clip_normalise(df[col], distress_max[col])))

\* compute_pdi: (weighted_sum * 100).clip(0, 100)
compute_pdi(df) ==
    np_clip(FracMul(WeightedSum(df, PDI_WEIGHTS, DISTRESS_MAX, Len(DISTRESS_COLS)),
                    Frac(100, 1)), 0, 100)

\* generate_pseudo_labels for one row: PDI and Pseudo_CIBIL in hundredths
generate_pseudo_labels(df) ==
    LET PDI == Round2(compute_pdi(df))
    IN [PDI |-> PDI, Pseudo_CIBIL |-> Round2(np_clip(Hundredths(100 * 100 - PDI), 0, 100))]

\* The bands with the lower bounds exclusive.
assign_condition_category_exclusive(score) ==
    IF score > 80 * 100 THEN "Good"
    ELSE IF score > 60 * 100 THEN "Fair"
    ELSE IF score > 40 * 100 THEN "Poor"
    ELSE "Critical"

\* score in hundredths
assign_condition_category(score) ==
    IF score >= 80 * 100 THEN "Good"
    ELSE IF score >= 60 * 100 THEN "Fair"
    ELSE IF score >= 40 * 100 THEN "Poor"
    ELSE "Critical"

AssertionError == [raised |-> "AssertionError"]

\* compute_hybrid_cibil for one row: Pseudo_CIBIL and the ML prediction in
\* hundredths.
compute_hybrid_cibil(Pseudo_CIBIL, ml_prediction, pseudo_weight, ml_weight) ==
    IF pseudo_weight + ml_weight # WeightScale
    THEN AssertionError
    ELSE LET ML_Predicted_CIBIL == Round2(np_clip(ml_prediction, 0, 100))
             Final_CIBIL ==
                 Round2(np_clip(Frac(pseudo_weight * Pseudo_CIBIL
                                       + ml_weight * ML_Predicted_CIBIL,
                                     WeightScale * 100), 0, 100))
         IN [ML_Predicted_CIBIL |-> ML_Predicted_CIBIL,
             Final_CIBIL |-> Final_CIBIL,
             Condition_Category |-> assign_condition_category(Final_CIBIL)]

\* What the model and the scaler of an artifact do with a row: a regressor
\* answers base - slope * iri_value, a broken one raises.
Regressor(base, slope) == [kind |-> "regressor", base |-> base, slope |-> slope]
Raises(exc) == [kind |-> "raises", exc |-> exc]

\* A model that keeps state between calls: its answer drifts with the calls made.
ModelPredictDrifting(model, df) ==
    IF model.kind = "raises"
    THEN [raised |-> model.exc]
    ELSE FracAdd(model.base, Frac(-(model.slope * df["iri_value"]) - Len(calls), ValueScale))

\* self._model.predict(self._scaler.transform(X))[0]
ModelPredict(model, df) ==
    IF model.kind = "raises"
    THEN [raised |-> model.exc]
    ELSE FracAdd(model.base, Frac(-(model.slope * df["iri_value"]), ValueScale))

\* RoadCIBILPredictor.__init__: the fields unpacked from the artifact; a
\* missing file raises FileNotFoundError.
RoadCIBILPredictor(model_file) ==
    IF model_file = None
    THEN [raised |-> "FileNotFoundError"]
    ELSE [_model |-> model_file["model"],
          _distress_cols |-> model_file["DISTRESS_COLS"],
          _distress_max |-> model_file["DISTRESS_MAX"],
          _pdi_weights |-> model_file["PDI_WEIGHTS"],
          _condition_bins |-> model_file["CONDITION_BINS"],
          _condition_lbls |-> model_file["CONDITION_LABELS"],
          _pseudo_w |-> model_file["PSEUDO_WEIGHT"],
          _ml_w |-> model_file["ML_WEIGHT"],
          _model_version |-> model_file["model_version"]]

\* _handle_missing, the distress columns: a column absent from the request is 0.
_handle_missing(self, raw) ==
    [col \in {self._distress_cols[i] : i \in DOMAIN self._distress_cols} |->
        IF col \in DOMAIN raw THEN raw[col] ELSE 0]

\* _compute_pdi: PDI and Pseudo_CIBIL in hundredths
_compute_pdi(self, df) ==
    LET weighted_sum ==
            WeightedSum(df, self._pdi_weights, self._distress_max,
                        Len(self._distress_cols))
        PDI == Round2(np_clip(FracMul(weighted_sum, Frac(100, 1)), 0, 100))
        Pseudo_CIBIL == Round2(np_clip(Hundredths(100 * 100 - PDI), 0, 100))
    IN [PDI |-> PDI, Pseudo_CIBIL |-> Pseudo_CIBIL]

\* _ml_predict without the clip.
_ml_predict_unclipped(self, df) ==
    LET pred == ModelPredict(self._model, df)
    IN IF "raised" \in DOMAIN pred THEN pred ELSE Round2(pred)

\* _ml_predict: round(float(np.clip(pred, 0.0, 100.0)), 2), or the exception
\* of the scaler or the model
_ml_predict(self, df) ==
    LET pred == ModelPredict(self._model, df)
    IN IF "raised" \in DOMAIN pred THEN pred ELSE Round2(np_clip(pred, 0, 100))

\* _assign_condition: the first bin with bins[i] <= score < bins[i + 1], the
\* last label when there is none; score in hundredths
_assign_condition(self, score) ==
    LET bins == self._condition_bins
        labels == self._condition_lbls
        hits == {i \in 1..(Len(bins) - 1) :
                    bins[i] * 100 <= score /\ score < bins[i + 1] * 100}
    IN IF hits # {}
       THEN labels[CHOOSE i \in hits : \A j \in hits : i <= j]
       ELSE labels[Len(labels)]

\* predict: the result dict (latency left out), or the exception raised
predict(self, raw) ==
    LET df == _handle_missing(self, raw)
        scored == _compute_pdi(self, df)
        ml_pred == _ml_predict(self, df)
        raised == ModelPredict(self._model, df)
    IN IF "raised" \in DOMAIN raised
       THEN raised
       ELSE LET final_cibil ==
                    Round2(np_clip(Frac(self._pseudo_w * scored.Pseudo_CIBIL
                                          + self._ml_w * ml_pred,
                                        WeightScale * 100), 0, 100))
            IN [pdi |-> scored.PDI,
                pseudo_cibil |-> scored.Pseudo_CIBIL,
                ml_predicted_cibil |-> ml_pred,
                final_cibil_score |-> final_cibil,
                condition_category |-> _assign_condition(self, final_cibil)]

-----------------------------------------------------------------------------
(* Cibil_Score_Model/api: schemas.py and main.py *)

\* RoadFeatures: the defaults and the upper bounds (le) of the distress fields;
\* every lower bound (ge) is 0.  Defaults in 1/ValueScale.
RoadFeaturesDefault ==
    [iri_value |-> 25, alligator_cracking_pct |-> 50, potholes_per_km |-> 30,
     rutting_depth_mm |-> 50, cracks_longitudinal_pct |-> 50,
     cracks_transverse_per_km |-> 30, raveling_pct |-> 50, edge_breaking_pct |-> 50,
     patches_per_km |-> 20, pothole_avg_depth_cm |-> 20]

RoadFeaturesLe ==
    [iri_value |-> 20, alligator_cracking_pct |-> 100, potholes_per_km |-> 500,
     rutting_depth_mm |-> 200, cracks_longitudinal_pct |-> 100,
     cracks_transverse_per_km |-> 500, raveling_pct |-> 100, edge_breaking_pct |-> 100,
     patches_per_km |-> 200, pothole_avg_depth_cm |-> 50]

\* The request body passes the validation of RoadFeatures.
RoadFeaturesValid(body) ==
    \A col \in DOMAIN body : 0 <= body[col] /\ body[col] <= RoadFeaturesLe[col] * ValueScale

\* payload.model_dump(): every field, the absent ones with their defaults
model_dump(body) ==
    [col \in DOMAIN RoadFeaturesDefault |->
        IF col \in DOMAIN body THEN body[col] ELSE RoadFeaturesDefault[col]]

\* One more entry in the record of predict calls.
Called(raw, outcome) == Append(calls, [raw |-> raw, outcome |-> outcome])

\* lifespan, up to the yield: the predictor is loaded; a failure to load ends
\* the start of the application.
lifespan_startup ==
    /\ _predictor = None
    /\ LET loaded == RoadCIBILPredictor(artifact)
       IN IF "raised" \in DOMAIN loaded
          THEN /\ response' = [kind |-> "startup", raised |-> "RuntimeError"]
               /\ UNCHANGED _predictor
          ELSE /\ response' = [kind |-> "startup", raised |-> "none"]
               /\ _predictor' = loaded
    /\ UNCHANGED <<csv, dbVars, seedRuns, uploads, budgetVars, artifact, calls>>

\* lifespan, after the yield
lifespan_shutdown ==
    /\ _predictor # None
    /\ _predictor' = None
    /\ response' = [kind |-> "shutdown"]
    /\ UNCHANGED <<csv, dbVars, seedRuns, uploads, budgetVars, artifact, calls>>

\* The status of an exception of predict: except ValueError, except Exception.
ScoreErrorStatus(raised) == IF raised = "ValueError" THEN 422 ELSE 500

\* POST /score
score_road(body) ==
    /\ Len(calls) < MaxCalls
    /\ IF ~RoadFeaturesValid(body)
       THEN /\ response' = [kind |-> "score", status |-> 422, detail |-> "validation"]
            /\ UNCHANGED calls
       ELSE IF _predictor = None
       THEN /\ response' = [kind |-> "score", status |-> 503, detail |-> "not loaded"]
            /\ UNCHANGED calls
       ELSE LET raw_dict == model_dump(body)
                result == predict(_predictor, raw_dict)
            IN /\ calls' = Called(raw_dict, result)
               /\ IF "raised" \in DOMAIN result
                  THEN response' = [kind |-> "score",
                                    status |-> ScoreErrorStatus(result.raised),
                                    detail |-> "inference"]
                  ELSE response' = [kind |-> "score",
                                    status |-> 200,
                                    body |-> body,
                                    final_cibil_score |-> result.final_cibil_score,
                                    condition_category |-> result.condition_category,
                                    pdi |-> result.pdi,
                                    pseudo_cibil |-> result.pseudo_cibil,
                                    ml_predicted_cibil |-> result.ml_predicted_cibil,
                                    model_version |-> _predictor._model_version]
    /\ UNCHANGED <<csv, dbVars, seedRuns, uploads, budgetVars, artifact, _predictor>>

\* predictor.predict(raw) called directly, as test_inference.py does
predict_call(raw) ==
    /\ Len(calls) < MaxCalls
    /\ _predictor # None
    /\ LET result == predict(_predictor, raw)
       IN /\ calls' = Called(raw, result)
          /\ response' = [kind |-> "predict", raw |-> raw, result |-> result]
    /\ UNCHANGED <<csv, dbVars, seedRuns, uploads, budgetVars, artifact, _predictor>>

-----------------------------------------------------------------------------
(* api/workorder_routes.py: GET /workorders *)

\* list_work_orders: the filters that are given (not None, not "") narrow the query; the rows come
\* newest first (offset 0, limit above the number of rows).
list_work_orders(road_id, status, severity) ==
    /\ LET Matches(wo) ==
               /\ road_id # "" => wo.road_id = road_id
               /\ status # "" => wo.status = status
               /\ severity # "" => wo.severity = severity
           rows == SelectSeq(workOrders, Matches)
           ordered == SortedDesc(rows, [i \in 1..Len(rows) |-> rows[i].created_at])
       IN response' = [kind |-> "workorders",
                       items |-> [i \in 1..Len(ordered) |->
                                     [id |-> ordered[i].id,
                                      road_id |-> ordered[i].road_id,
                                      scan_id |-> ordered[i].scan_id,
                                      severity |-> ordered[i].severity,
                                      status |-> ordered[i].status,
                                      estimated_cost |-> ordered[i].estimated_cost]]]
    /\ UNCHANGED <<csv, dbVars, seedRuns, uploads, budgetVars, scoreVars>>

-----------------------------------------------------------------------------
(* lidar/metrics.py *)

\* The adjustment without the clamp.
compute_road_health_adjustment_unclamped(base_score, pothole_total_volume_m3, avg_rut_depth_mm, damaged_area_percent) ==
    FracAdd(FracAdd(FracAdd(base_score,
                            FracMul(pothole_total_volume_m3, Frac(-10, 1))),
                    FracMul(avg_rut_depth_mm, Frac(-1, 2))),
            FracMul(damaged_area_percent, Frac(-5, 1)))

\* compute_road_health_adjustment: max(0.0, min(100.0, adj))
compute_road_health_adjustment(base_score, pothole_total_volume_m3, avg_rut_depth_mm, damaged_area_percent) ==
    LET adj == FracAdd(FracAdd(FracAdd(base_score,
                                       FracMul(pothole_total_volume_m3, Frac(-10, 1))),
                               FracMul(avg_rut_depth_mm, Frac(-1, 2))),
                       FracMul(damaged_area_percent, Frac(-5, 1)))
        capped == IF FracLt(adj, Frac(100, 1)) THEN adj ELSE Frac(100, 1)
    IN IF FracLt(Frac(0, 1), capped) THEN capped ELSE Frac(0, 1)

\* A call of compute_road_health_adjustment, as tests/test_metrics.py makes it.
road_health_adjustment_call(base_score, pothole_total_volume_m3, avg_rut_depth_mm, damaged_area_percent) ==
    /\ response' = [kind |-> "adjustment",
                    base_score |-> base_score,
                    pothole_total_volume_m3 |-> pothole_total_volume_m3,
                    avg_rut_depth_mm |-> avg_rut_depth_mm,
                    damaged_area_percent |-> damaged_area_percent,
                    score |-> compute_road_health_adjustment(
                                  base_score, pothole_total_volume_m3,
                                  avg_rut_depth_mm, damaged_area_percent)]
    /\ UNCHANGED <<csv, dbVars, seedRuns, uploads, budgetVars, scoreVars>>

-----------------------------------------------------------------------------
(* The CSV files, the initial state and the specifications *)

\* Measurements as a CSV row holds them: depths in mm, damaged area in
\* 1/CsvScale, volume in 1/VolScale cubic metres.
Measurements(depth, damage, rut, vol) ==
    [max_pothole_depth_mm |-> depth, damaged_area_percent |-> damage,
     avg_rut_depth_mm |-> rut, pothole_total_volume_m3 |-> vol]

\* A CSV row: a road, a scan_id column (empty: the script derives one) and
\* the measurements.
CsvRow(road_id, scan_id, m) == [road_id |-> road_id, scan_id |-> scan_id] @@ m

NoTrigger == Measurements(50, 10, 8, 5)      \* 1.0 % damage: no threshold exceeded
Critical == Measurements(130, 6000, 0, 10)   \* depth 130, 6 % damage; cost 100
High == Measurements(85, 0, 0, 5)            \* depth 85; cost 50
Medium == Measurements(50, 15, 13, 3)        \* rut 13 triggers, 1.5 % damage; cost 30
RutOnly == Measurements(0, 0, 13, 0)         \* rut 13 alone, no volume; cost 0
DamageOnly == Measurements(50, 2500, 8, 30)  \* 2.5 % damage triggers; cost 300
Negative == Measurements(0, 0, 0, -2)        \* a negative volume in the file

\* The scan_id column of a CSV row, when it is filled in.
ScanNames == {"S1"}

Profiles == {NoTrigger, Critical, High, Medium, RutOnly, DamageOnly}

FilesOver(rows, maxLen) == UNION { [1..n -> rows] : n \in 1..maxLen }

\* Files of one row over a grid of measurements around every threshold.
GridFiles ==
    { <<CsvRow("R1", "", Measurements(depth, damage, rut, vol))>> :
        depth \in {50, 80, 81, 120, 121},
        damage \in {0, 9, 10, 15, 20, 21, 50, 51, 1000, 2000, 2500, 5000, 5100, 6000},
        rut \in {8, 12, 13},
        vol \in {5} }

\* Files whose rows share or differ in road and scan_id; "" as a road_id is a
\* row the script skips.
IngestFiles ==
    FilesOver({ CsvRow(r, s, m) : r \in Roads, s \in ScanNames \cup {""},
                                  m \in {Critical, High} }
              \cup { CsvRow("", s, High) : s \in ScanNames }, MaxRows)

\* Files of rows with scan ids of their own, for the budget simulation.
BudgetFiles == FilesOver({ CsvRow("R1", "", m) : m \in Profiles }, MaxPending)

\* A row with a pothole volume (in 1/VolScale cubic metres) and nothing else.
Volume(vol) == Measurements(0, 0, 0, vol)

\* Files of scans to verify repairs with, each row with a scan id of its own:
\* 10 m3 before against 0.5, 1, 1.1, 1.5 and 2 m3 after, volumes of zero and
\* below, and volumes that grow.
VerifyFiles ==
    { <<CsvRow("R1", "", Volume(15000)), CsvRow("R1", "", Volume(750)),
        CsvRow("R1", "", Volume(3000))>>,
      <<CsvRow("R1", "", Volume(15000)), CsvRow("R1", "", Volume(1500)),
        CsvRow("R1", "", Volume(1650))>>,
      <<CsvRow("R1", "", Volume(15000)), CsvRow("R1", "", Volume(2250)),
        CsvRow("R1", "", Negative)>>,
      <<CsvRow("R1", "", RutOnly), CsvRow("R1", "", Volume(15000)),
        CsvRow("R1", "", Negative)>>,
      <<CsvRow("R1", "", Medium), CsvRow("R1", "", High), CsvRow("R1", "", Critical)>>,
      <<CsvRow("R1", "", RutOnly), CsvRow("R1", "", DamageOnly)>>,
      <<CsvRow("R1", "", Volume(75000)), CsvRow("R1", "", Volume(7503))>> }

SystemFiles ==
    { <<CsvRow("R1", "S1", Critical), CsvRow("R2", "", RutOnly)>>,
      <<CsvRow("R1", "S1", High), CsvRow("R1", "S1", High)>>,
      <<CsvRow("R2", "S2", NoTrigger), CsvRow("R1", "", Medium)>> }

\* Requests to the scoring service: distress fields in 1/ValueScale, any of
\* them absent.
AllDistress(level) == [col \in DistressNames |-> (DISTRESS_MAX[col] * ValueScale * level) \div 2]

PerfectRoad == AllDistress(0)
HalfWornRoad == AllDistress(1)
WorstRoad == AllDistress(2)
BeyondCeilings == [col \in DistressNames |-> RoadFeaturesLe[col] * ValueScale]
NoFields == [col \in {} |-> 0]
PartialRoad == [iri_value |-> 42, potholes_per_km |-> 80, alligator_cracking_pct |-> 150]
OutOfSchema == [iri_value |-> 250]
RoughBeyondCeiling == [col \in DistressNames |-> IF col = "iri_value" THEN 150 ELSE 0]

Payloads ==
    {PerfectRoad, WorstRoad, BeyondCeilings, RoughBeyondCeiling, NoFields, PartialRoad,
     OutOfSchema}

\* Rows of the batch dataset: every distress column has a value.
DatasetRows ==
    {PerfectRoad, HalfWornRoad, WorstRoad, BeyondCeilings, RoughBeyondCeiling,
     [col \in DistressNames |-> IF col \in DOMAIN PartialRoad THEN PartialRoad[col] ELSE 0]}

\* The bins and labels of the exported artifact.
CONDITION_BINS == <<0, 40, 60, 80, 100>>
CONDITION_LABELS == <<"Critical", "Poor", "Fair", "Good">>

\* The pickle file: the tables of road_cibil_scoring.py, a model and blend
\* weights in 1/WeightScale.
Artifact(model, weights) ==
    [model |-> model,
     DISTRESS_COLS |-> DISTRESS_COLS,
     DISTRESS_MAX |-> DISTRESS_MAX,
     PDI_WEIGHTS |-> PDI_WEIGHTS,
     CONDITION_BINS |-> CONDITION_BINS,
     CONDITION_LABELS |-> CONDITION_LABELS,
     PSEUDO_WEIGHT |-> weights[1],
     ML_WEIGHT |-> weights[2],
     model_version |-> "v1.0"]

\* Models that answer inside [0, 100], above it, below it, with the roughness
\* of the row, and models that raise.
Models ==
    {Regressor(Frac(75204, 1000), 0), Regressor(Frac(150, 1), 0),
     Regressor(Frac(-20, 1), 0), Regressor(Frac(95, 1), 3),
     Raises("ValueError"), Raises("RuntimeError")}

BlendWeights == {<<70, 30>>, <<70, 50>>, <<50, 30>>}

\* Blend weights handed to compute_hybrid_cibil.
HybridWeights == BlendWeights \cup {<<50, 50>>, <<100, 0>>}

\* None: there is no file at MODEL_PATH.
Artifacts ==
    {Artifact(model, <<70, 30>>) : model \in Models}
        \cup {Artifact(Regressor(Frac(75204, 1000), 0), w) : w \in BlendWeights}
        \cup {None}

EmptyDb == [scans |-> {}, metrics |-> <<>>, workOrders |-> <<>>, alerts |-> <<>>]

Idle ==
    /\ bPc = "idle"
    /\ bBudget = 0
    /\ bOrders = <<>>
    /\ bIdx = 1
    /\ bSpent = 0
    /\ bSelected = <<>>

\* The scoring service is not running.
ScoringOff ==
    /\ artifact = None
    /\ _predictor = None
    /\ calls = <<>>

\* Before the first run of the seed script over one of the files.
InitEmpty(files) ==
    /\ csv \in files
    /\ scans = {}
    /\ metrics = <<>>
    /\ workOrders = <<>>
    /\ alerts = <<>>
    /\ perfLog = <<>>
    /\ seedRuns = 0
    /\ uploads = 0
    /\ Idle
    /\ ScoringOff
    /\ response = NoResponse

\* After one run of the seed script over one of the files.
InitSeeded(files) ==
    /\ csv \in files
    /\ LET db == SeedRows(EmptyDb, csv, 0)
       IN /\ scans = db.scans
          /\ metrics = db.metrics
          /\ workOrders = db.workOrders
          /\ alerts = db.alerts
    /\ perfLog = <<>>
    /\ seedRuns = 1
    /\ uploads = 0
    /\ Idle
    /\ ScoringOff
    /\ response = [kind |-> "seed", printed |-> "Seeded"]

Upload ==
    \E road_id \in Roads, ext \in Extensions, too_large \in BOOLEAN :
        upload_lidar(road_id, ext, too_large)

BudgetStart == \E budget \in Budgets : BudgetQuery(budget)

Verify ==
    \E road_id \in Roads, b \in RequestScanIds, a \in RequestScanIds :
        verify_repair_endpoint(road_id, b, a)

Score == \E body \in Payloads : score_road(body)
Predict == \E raw \in Payloads : predict_call(raw)
Init == InitEmpty(SystemFiles)
Next == run_sync \/ Upload \/ BudgetStart \/ BudgetIterate \/ BudgetReturn \/ Verify
Spec == Init /\ [][Next]_vars

\* Ingestion: the seed script and uploads, over many files.
InitIngest == InitEmpty(GridFiles \cup IngestFiles)
NextIngest == run_sync \/ Upload
SpecIngest == InitIngest /\ [][NextIngest]_vars

\* Budget simulations over a seeded database.
InitBudget == InitSeeded(BudgetFiles)
NextBudget == BudgetStart \/ BudgetIterate \/ BudgetReturn
SpecBudget == InitBudget /\ [][NextBudget]_vars

\* Verifications over a seeded database.
InitVerify == InitSeeded(VerifyFiles)
NextVerify == Verify
SpecVerify == InitVerify /\ [][NextVerify]_vars

\* The scoring service over every artifact.
InitScore ==
    /\ csv = <<>>
    /\ scans = {}
    /\ metrics = <<>>
    /\ workOrders = <<>>
    /\ alerts = <<>>
    /\ perfLog = <<>>
    /\ seedRuns = 0
    /\ uploads = 0
    /\ Idle
    /\ artifact \in Artifacts
    /\ _predictor = None
    /\ calls = <<>>
    /\ response = NoResponse
NextScore == lifespan_startup \/ lifespan_shutdown \/ Score \/ Predict
SpecScore == InitScore /\ [][NextScore]_vars

\* The health adjustment on its own, over base scores and penalties.
BaseScores ==
    {Frac(0, 1), Frac(50, 1), Frac(80, 1), Frac(100, 1), Frac(120, 1), Frac(-10, 1)}
PenaltyVolumes == {Frac(0, 1), Frac(1, 2), Frac(2, 1), Frac(12, 1), Frac(-1, 1)}
PenaltyRuts == {Frac(0, 1), Frac(10, 1), Frac(13, 1)}
PenaltyDamages == {Frac(0, 1), Frac(4, 1), Frac(25, 1)}
HealthAdjustment ==
    \E base_score \in BaseScores, volume \in PenaltyVolumes, rut \in PenaltyRuts,
       damage \in PenaltyDamages :
        road_health_adjustment_call(base_score, volume, rut, damage)
InitHealth == InitEmpty({<<>>})
NextHealth == HealthAdjustment
SpecHealth == InitHealth /\ [][NextHealth]_vars

\* The budget simulation over a database whose work orders the external
\* workflow has moved on: every stored order in any of the three statuses.
WorkflowStatuses == {"pending", "in-progress", "completed"}
WithStatuses(tbl) ==
    {[i \in DOMAIN tbl |-> [tbl[i] EXCEPT !.status = st[i]]] :
        st \in [DOMAIN tbl -> WorkflowStatuses]}
WorkflowFiles ==
    { <<CsvRow("R1", "", Critical), CsvRow("R2", "", High)>>,
      <<CsvRow("R1", "", High), CsvRow("R1", "", High)>>,
      <<CsvRow("R1", "", Medium), CsvRow("R2", "", DamageOnly)>>,
      <<CsvRow("R2", "", RutOnly)>> }
InitWorkflow ==
    /\ csv \in WorkflowFiles
    /\ LET db == SeedRows(EmptyDb, csv, 0)
       IN /\ scans = db.scans
          /\ metrics = db.metrics
          /\ workOrders \in WithStatuses(db.workOrders)
          /\ alerts = db.alerts
    /\ perfLog = <<>>
    /\ seedRuns = 1
    /\ uploads = 0
    /\ Idle
    /\ ScoringOff
    /\ response = [kind |-> "seed", printed |-> "Seeded"]
NextWorkflow == BudgetStart \/ BudgetIterate \/ BudgetReturn
SpecWorkflow == InitWorkflow /\ [][NextWorkflow]_vars

\* The budget simulation with the seed script and uploads writing to the same
\* database while it runs.
ConcurrentFiles ==
    { <<CsvRow("R1", "", Critical), CsvRow("R2", "", High)>>,
      <<CsvRow("R1", "", High)>>,
      <<CsvRow("R1", "", Medium), CsvRow("R2", "", DamageOnly)>> }
InitConcurrent == InitSeeded(ConcurrentFiles)
NextConcurrent == run_sync \/ Upload \/ BudgetStart \/ BudgetIterate \/ BudgetReturn
SpecConcurrent == InitConcurrent /\ [][NextConcurrent]_vars

\* Every operation of the LiDAR backend over one small file.
\* One request of each kind: an upload for R2, a simulation with a budget
\* above every cost, a verification of a scan against itself, a listing.
ListFilters == {<<"", "", "">>, <<"R1", "completed", "high">>}
ListWorkOrders == \E filter \in ListFilters : list_work_orders(filter[1], filter[2], filter[3])
OperationsUpload == \E ext \in {"laz", "txt"} : upload_lidar("R2", ext, FALSE)
OperationsBudget == BudgetQuery(1000 * MoneyScale)
OperationsVerify == \E scan_id \in RequestScanIds : verify_repair_endpoint("R1", scan_id, scan_id)
OperationFiles ==
    { <<CsvRow("R1", "", High), CsvRow("R2", "", RutOnly)>> }
InitOperations == InitEmpty(OperationFiles)
NextOperations ==
    run_sync \/ OperationsUpload \/ OperationsBudget \/ BudgetIterate \/ BudgetReturn
        \/ OperationsVerify \/ ListWorkOrders
SpecOperations == InitOperations /\ [][NextOperations]_vars

-----------------------------------------------------------------------------
(* Claims about the budget simulation (SpecBudget) *)

Rupees(n) == n * MoneyScale

Costs(orders) == [i \in 1..Len(orders) |-> orders[i].estimated_cost]

\* The sum of the first k of a sequence of costs.
RECURSIVE SumFirst(_, _)
SumFirst(costs, k) == IF k = 0 THEN 0 ELSE SumFirst(costs, k - 1) + costs[k]

\* Every non-empty prefix up to k fits the budget.
PrefixFits(costs, k, budget) == \A j \in 1..k : SumFirst(costs, j) <= budget

\* The pending orders at the time of the query, as a bag of rows.
IsPermutationOfPending(orders) ==
    LET pending == SelectSeq(workOrders, IsPending)
    IN /\ Len(orders) = Len(pending)
       /\ \A i \in 1..Len(pending) : \E j \in 1..Len(orders) : orders[j] = pending[i]

\* C1: the allocation walks the pending orders in priority-descending order,
\* accepts an order exactly when spent + cost <= budget, and stops at the first
\* order that does not fit: in every state of the loop the selected list is the
\* prefix of the sorted orders walked so far, all of it fitting the budget, and
\* after a break the next order did not fit; the response holds that prefix.
C1_GreedyPrefix ==
    /\ bPc \in {"loop", "break"} =>
          /\ IsPermutationOfPending(bOrders)
          /\ \A i \in 1..(Len(bOrders) - 1) : priority(bOrders[i]) >= priority(bOrders[i + 1])
          /\ bIdx = Len(bSelected) + 1
          /\ bSelected = [i \in 1..(bIdx - 1) |-> SelectedEntry(bOrders[i])]
          /\ bSpent = SumFirst(Costs(bOrders), bIdx - 1)
          /\ PrefixFits(Costs(bOrders), bIdx - 1, bBudget)
          /\ bPc = "break" =>
                /\ bIdx <= Len(bOrders)
                /\ SumFirst(Costs(bOrders), bIdx) > bBudget
    /\ response.kind = "budget" =>
          LET orders == SortedOrders(PendingOrders(workOrders))
              n == response.work_orders_count
          IN /\ n <= Len(orders)
             /\ response.work_orders = [i \in 1..n |-> SelectedEntry(orders[i])]
             /\ PrefixFits(Costs(orders), n, response.budget)
             /\ n < Len(orders) => SumFirst(Costs(orders), n + 1) > response.budget

\* The loop was left by break although a later order would still fit.
C1_Witness ==
    /\ bPc = "break"
    /\ \E j \in (bIdx + 1)..Len(bOrders) : bSpent + bOrders[j].estimated_cost <= bBudget

\* The orders of the example: costs 100, 50, 30 in priority order, budget 140.
C2_Case ==
    /\ response.kind = "budget"
    /\ response.budget = Rupees(140)
    /\ Costs(SortedOrders(PendingOrders(workOrders))) = <<Rupees(100), Rupees(50), Rupees(30)>>

\* C2 as stated: costs [100, 50, 30] in priority order and budget 140 select
\* the orders costing [100, 30], spent 130, remaining 10.
C2_Original ==
    C2_Case =>
        /\ Costs(response.work_orders) = <<Rupees(100), Rupees(30)>>
        /\ response.spent = Rupees(130)
        /\ response.remaining = Rupees(10)

\* C2 amended: costs [100, 50, 30] in priority order and budget 140 select
\* the order costing 100 alone (the loop stops at the 50-cost order), spent
\* 100, remaining 40.
C2_StopsAtFirstMisfit ==
    C2_Case =>
        /\ Costs(response.work_orders) = <<Rupees(100)>>
        /\ response.work_orders_count = 1
        /\ response.spent = Rupees(100)
        /\ response.remaining = Rupees(40)

C2_Witness == C2_Case

\* C3: for every budget <= 0 and every set of pending orders (orders of cost 0
\* included) the response is an empty selection with spent = 0 and count = 0.
C3_EmptyOnNonPositiveBudget ==
    (response.kind = "budget" /\ response.budget <= 0) =>
        /\ response.status = 200
        /\ response.work_orders = <<>>
        /\ response.work_orders_count = 0
        /\ response.spent = 0

-----------------------------------------------------------------------------
(* Claims about the rule engine and ingestion (SpecIngest) *)

\* The thresholds in the words of the specification: depth in mm, damaged area
\* in 1/PctScale percent, rut depth in mm.
ExceedsAThreshold(m) ==
    ~(m.max_pothole_depth_mm <= 80 /\ m.damaged_area_percent <= 20 /\ m.avg_rut_depth_mm <= 12)

\* C4: after any sequence of uploads and runs of the seed script (the same CSV
\* run twice included) at most one work order exists for each pair of road and
\* scan.
C4_AtMostOncePerRoadAndScan ==
    \A i, j \in DOMAIN workOrders :
        (workOrders[i].road_id = workOrders[j].road_id
         /\ workOrders[i].scan_id = workOrders[j].scan_id) => i = j

\* C5: evaluate_work_order is true exactly when depth > 80 or damaged area > 2.0
\* or rut depth > 12, each comparison strict and each alone sufficient: every
\* stored scan has a work order exactly when its metrics exceed a threshold, and
\* metrics exactly on the three thresholds (80, 2.0, 12) do not trigger.
C5_TriggerExactlyAboveThresholds ==
    /\ \A i \in DOMAIN metrics :
          LET m == metrics[i]
          IN /\ evaluate_work_order(m) <=> ExceedsAThreshold(m)
             /\ (\E j \in DOMAIN workOrders : workOrders[j].scan_id = m.scan_id)
                   <=> ExceedsAThreshold(m)
    /\ ~evaluate_work_order(Measurements(80, 2 * PctScale, 12, 0))

\* Metrics exactly on the three thresholds were ingested and no work order came
\* of them.
C5_Witness ==
    /\ seedRuns >= 1
    /\ \E i \in DOMAIN metrics :
          /\ metrics[i].max_pothole_depth_mm = 80
          /\ metrics[i].damaged_area_percent = 2 * PctScale
          /\ metrics[i].avg_rut_depth_mm = 12
    /\ workOrders = <<>>

Severities == {"critical", "high", "medium", "low"}

\* The condition of each severity with the precedence written out.
SeverityCondition(severity, depth, damage) ==
    LET critical == depth > 120 \/ damage > 5 * PctScale
        high == depth > 80
        medium == 1 * PctScale <= damage /\ damage <= 2 * PctScale
    IN CASE severity = "critical" -> critical
         [] severity = "high" -> ~critical /\ high
         [] severity = "medium" -> ~critical /\ ~high /\ medium
         [] severity = "low" -> ~critical /\ ~high /\ ~medium

\* C6: classify_severity takes the first match of critical (depth > 120 or
\* damage > 5), high (depth > 80), medium (1.0 <= damage <= 2.0), low: every
\* stored pair of depth and damage has exactly one severity, the one of the
\* first matching condition, and every work order carries the severity of its
\* scan's metrics; critical wins where the condition of high holds too.
C6_FirstMatchSeverity ==
    /\ \A i \in DOMAIN metrics :
          LET depth == metrics[i].max_pothole_depth_mm
              damage == metrics[i].damaged_area_percent
              matching == {s \in Severities : SeverityCondition(s, depth, damage)}
          IN /\ matching = {classify_severity(depth, damage)}
             /\ (depth > 120 \/ damage > 5 * PctScale) =>
                   classify_severity(depth, damage) = "critical"
             /\ \A j \in DOMAIN workOrders :
                   workOrders[j].scan_id = metrics[i].scan_id =>
                       SeverityCondition(workOrders[j].severity, depth, damage)

\* A work order from a scan whose depth is over both 120 and 80, with little
\* damaged area: critical, not high.
C6_Witness ==
    \E i \in DOMAIN metrics, j \in DOMAIN workOrders :
        /\ workOrders[j].scan_id = metrics[i].scan_id
        /\ metrics[i].max_pothole_depth_mm > 120
        /\ metrics[i].damaged_area_percent <= 5 * PctScale
        /\ workOrders[j].severity = "critical"

SeverityRank(severity) == [critical |-> 4, high |-> 3, medium |-> 2, low |-> 1][severity]

\* C7: the recommended action and the SLA of every work order follow from its
\* severity alone, as one of (critical, reconstruction, 7), (high, overlay, 15),
\* (medium, patch, 30), (low, patch, 60); a more severe order never has a longer
\* SLA than a less severe one.
C7_ActionAndSlaBySeverity ==
    /\ \A i \in DOMAIN workOrders :
          <<workOrders[i].severity, workOrders[i].recommended_action, workOrders[i].sla_days>>
              \in {<<"critical", "reconstruction", 7>>, <<"high", "overlay", 15>>,
                   <<"medium", "patch", 30>>, <<"low", "patch", 60>>}
    /\ \A i, j \in DOMAIN workOrders :
          SeverityRank(workOrders[i].severity) > SeverityRank(workOrders[j].severity)
              => workOrders[i].sla_days <= workOrders[j].sla_days

\* A critical and a high work order side by side, the critical one with the
\* shorter SLA.
C7_Witness ==
    \E i, j \in DOMAIN workOrders :
        /\ workOrders[i].severity = "critical"
        /\ workOrders[j].severity = "high"
        /\ workOrders[i].sla_days < workOrders[j].sla_days

\* The scans a step hands to create_work_order_if_needed: the rows of the CSV
\* with a road in a run of the seed script, the new scan in an upload.
ScansEvaluated ==
    IF seedRuns' # seedRuns
    THEN {SeedScanId(csv[k], k - 1) : k \in {n \in DOMAIN csv : csv[n].road_id # ""}}
    ELSE {metrics'[k].scan_id : k \in (Len(metrics) + 1)..Len(metrics')}

\* C8: when the metrics of the scans of a step exceed no threshold,
\* create_work_order_if_needed returns None for them and the step leaves the
\* stored work orders and alerts as they were.
C8_NoTriggerNoWorkOrder ==
    [][(\A i \in DOMAIN metrics' :
           metrics'[i].scan_id \in ScansEvaluated => ~ExceedsAThreshold(metrics'[i]))
       => /\ \A i \in DOMAIN metrics' :
                metrics'[i].scan_id \in ScansEvaluated =>
                    create_work_order_if_needed(metrics'[i].road_id, metrics'[i].scan_id,
                                                metrics'[i]) = None
          /\ workOrders' = workOrders
          /\ alerts' = alerts]_vars

\* The scan of the example (depth 50, damaged area 1 %, rut 8) went through the
\* seed script and left no work order and no alert.
C8_Witness ==
    /\ seedRuns >= 1
    /\ \E i \in DOMAIN metrics :
          /\ metrics[i].max_pothole_depth_mm = 50
          /\ metrics[i].damaged_area_percent = 1 * PctScale
          /\ metrics[i].avg_rut_depth_mm = 8
    /\ workOrders = <<>>
    /\ alerts = <<>>

-----------------------------------------------------------------------------
(* Claims about repair verification (SpecVerify) *)

Hundred == Frac(100, 1)

\* The volumes of the stored scans: what a verification can be given.
StoredVolumes == {metrics[i].pothole_total_volume_m3 : i \in DOMAIN metrics}

\* C9: with before_volume <= 0 and any after_volume, verify_repair gives
\* improvement 100 and quality 100, not flagged, without dividing and without
\* raising: no verification answers with an error, and the record of such a
\* verification is created with both scores at 100.
C9_NoBaselineIsFullImprovement ==
    /\ \A before \in StoredVolumes, after \in StoredVolumes :
          before <= 0 =>
              LET log == verify_repair("R1", before, after, None, None)
              IN /\ log # ZeroDivisionError
                 /\ log.improvement_percent = Hundred
                 /\ log.quality_score = Hundred
                 /\ ~is_contractor_flagged(log.improvement_percent)
    /\ \A i \in DOMAIN perfLog :
          perfLog[i].before_volume <= 0 =>
              /\ perfLog[i].improvement_percent = Hundred
              /\ perfLog[i].quality_score = Hundred
    /\ response.kind = "verify" =>
          /\ response.status \in {200, 404}
          /\ (response.status = 200 /\ response.before_volume_m3 <= 0) =>
                /\ perfLog # <<>>
                /\ perfLog[Len(perfLog)].before_volume = response.before_volume_m3
                /\ perfLog[Len(perfLog)].after_volume = response.after_volume_m3
                /\ response.improvement_percent = 100 * 100
                /\ response.quality_score = 100 * 100
                /\ ~response.contractor_flagged

\* A verification whose before-scan has volume 0 and whose after-scan has a
\* positive volume was answered and recorded.
C9_Witness ==
    /\ response.kind = "verify"
    /\ response.status = 200
    /\ response.before_volume_m3 = 0
    /\ response.after_volume_m3 > 0
    /\ \E i \in DOMAIN perfLog : perfLog[i].before_volume = 0

InZeroToHundred(x) == FracLe(Frac(0, 1), x) /\ FracLe(x, Hundred)

\* C10: every contractor performance record has its improvement percent and
\* its quality score in [0, 100], whatever the volumes (the after-volume above
\* the before-volume or negative included), and so has every answer.
C10_ScoresWithinZeroAndHundred ==
    /\ \A i \in DOMAIN perfLog :
          /\ InZeroToHundred(perfLog[i].improvement_percent)
          /\ InZeroToHundred(perfLog[i].quality_score)
    /\ (response.kind = "verify" /\ response.status = 200) =>
          /\ response.improvement_percent \in 0..(100 * 100)
          /\ response.quality_score \in 0..(100 * 100)

\* A record of a verification with a positive before-volume and a negative
\* after-volume: the reduction is over 100 % and the record holds 100.
C10_Witness ==
    \E i \in DOMAIN perfLog :
        /\ perfLog[i].before_volume > 0
        /\ perfLog[i].after_volume < 0
        /\ perfLog[i].improvement_percent = Hundred

\* clip(x, 0, 100) of a fraction
ClipToPercent(x) ==
    IF FracLe(x, Frac(0, 1)) THEN Frac(0, 1)
    ELSE IF FracLe(Hundred, x) THEN Hundred
    ELSE x

\* A volume in cubic metres, as the metrics hold it.
CubicMetres(n, d) == (n * VolScale) \div d

IsPrefix(old, new) ==
    /\ Len(old) <= Len(new)
    /\ \A i \in DOMAIN old : new[i] = old[i]

\* C12: every verification whose two scans have metrics appends exactly one
\* contractor performance record, flagged or not, and no step changes or
\* removes a record that exists: the log only grows at its end.
C12_AppendOnlyHistory ==
    [][/\ IsPrefix(perfLog, perfLog')
       /\ \A road_id \in Roads, b \in RequestScanIds, a \in RequestScanIds :
             (/\ verify_repair_endpoint(road_id, b, a)
              /\ MetricsOf(metrics, b) # {}
              /\ MetricsOf(metrics, a) # {})
             => /\ Len(perfLog') = Len(perfLog) + 1
                /\ perfLog'[Len(perfLog')].road_id = road_id
                /\ perfLog'[Len(perfLog')].before_volume =
                       ScalarOneOrNone(metrics, MetricsOf(metrics, b)).pothole_total_volume_m3
                /\ perfLog'[Len(perfLog')].after_volume =
                       ScalarOneOrNone(metrics, MetricsOf(metrics, a)).pothole_total_volume_m3]_vars

\* Two records, the first of a flagged repair, the second of one that is not.
C12_Witness ==
    /\ Len(perfLog) = 2
    /\ is_contractor_flagged(perfLog[1].improvement_percent)
    /\ ~is_contractor_flagged(perfLog[2].improvement_percent)

\* C13: a repair is flagged exactly when its improvement percent is strictly
\* below 90 (85 and 89 are flagged, 90 and 95 are not), and 90 itself carries
\* no penalty: the answer is flagged exactly when the quality score of the
\* record is 0.9 times its improvement.
C13_FlaggedBelowNinety ==
    /\ is_contractor_flagged(Frac(85, 1)) /\ is_contractor_flagged(Frac(89, 1))
    /\ ~is_contractor_flagged(Frac(90, 1)) /\ ~is_contractor_flagged(Frac(95, 1))
    /\ (response.kind = "verify" /\ response.status = 200) =>
          LET log == perfLog[Len(perfLog)]
              improvement == log.improvement_percent
              below == improvement.n < 90 * improvement.d
          IN /\ response.contractor_flagged <=> below
             /\ response.contractor_flagged =>
                   log.quality_score = FracMul(improvement, Frac(9, 10))
             /\ ~response.contractor_flagged => log.quality_score = improvement
             /\ improvement = Frac(90, 1) =>
                   ~response.contractor_flagged /\ log.quality_score = Frac(90, 1)

\* A repair of exactly 90 % (10 m3 before, 1 m3 after) was answered unflagged
\* with a quality score of 90.
C13_Witness ==
    /\ response.kind = "verify"
    /\ response.status = 200
    /\ response.improvement_percent = 90 * 100
    /\ response.quality_score = 90 * 100
    /\ ~response.contractor_flagged
    /\ response.after_volume_m3 > 0

-----------------------------------------------------------------------------
(* Claims about the scoring service (SpecScore) *)

\* A distress value of a request, an absent one taken as 0.
ValueOrZero(raw, col) == IF col \in DOMAIN raw THEN raw[col] ELSE 0

\* 100 * sum over the metrics in cols of weight * clip(value, 0, ceiling) /
\* ceiling, as a fraction.
RECURSIVE PdiOver(_, _)
PdiOver(raw, cols) ==
    IF cols = {}
    THEN Frac(0, 1)
    ELSE LET col == CHOOSE c \in cols : TRUE
             ceiling == DISTRESS_MAX[col] * ValueScale
             value == ValueOrZero(raw, col)
             clipped == IF value < 0 THEN 0 ELSE IF value > ceiling THEN ceiling ELSE value
         IN FracAdd(PdiOver(raw, cols \ {col}),
                    Frac(100 * PDI_WEIGHTS[col] * clipped, WeightScale * ceiling))

\* The predict calls that returned a result.
Results == {i \in DOMAIN calls : "raised" \notin DOMAIN calls[i].outcome}

\* C14: for every distress vector, values above their ceilings included, the
\* PDI is within [0, 100], it is 100 * sum of weight * clip(value, 0, ceiling)
\* / ceiling (to the 2 decimals the scorer keeps), and the pseudo score is
\* 100 - PDI exactly; in the inference scorer and in the batch scorer.
C14_PdiWithinRangeAndPseudoScore ==
    /\ \A i \in Results :
          LET pdi == calls[i].outcome.pdi
          IN /\ 0 <= pdi /\ pdi <= 100 * 100
             /\ pdi = Round2(PdiOver(calls[i].raw, DistressNames))
             /\ calls[i].outcome.pseudo_cibil = 100 * 100 - pdi
    /\ \A df \in DatasetRows :
          LET labelled == generate_pseudo_labels(df)
          IN /\ labelled.PDI \in 0..(100 * 100)
             /\ labelled.PDI = Round2(PdiOver(df, DistressNames))
             /\ labelled.Pseudo_CIBIL = 100 * 100 - labelled.PDI

\* A road whose roughness alone is beyond its ceiling (15 against 10) was
\* scored: PDI 22, the weight of roughness, and pseudo score 78.
C14_Witness ==
    \E i \in Results :
        /\ calls[i].raw = RoughBeyondCeiling
        /\ calls[i].outcome.pdi = 22 * 100
        /\ calls[i].outcome.pseudo_cibil = 78 * 100

\* C15: a distress metric missing from a scoring request contributes 0 to the
\* PDI and causes no error, in a direct call of the predictor and in a request
\* through the /score schema.
C15_MissingMetricContributesZero ==
    /\ response.kind = "predict" =>
          /\ "raised" \notin DOMAIN response.result =>
                response.result.pdi =
                    Round2(PdiOver(response.raw, DOMAIN response.raw))
    /\ (response.kind = "score" /\ response.status = 200) =>
          response.pdi = Round2(PdiOver(response.body, DOMAIN response.body))

\* C16: the final score is clip(pseudoWeight * pseudoScore + mlWeight *
\* mlScore, 0, 100), to 2 decimals, so it is within [0, 100]; the ML score of
\* the blend is within [0, 100] whatever the model answered.
C16_FinalScoreIsClippedBlend ==
    \A i \in Results :
        LET result == calls[i].outcome
            blend == Frac(artifact["PSEUDO_WEIGHT"] * result.pseudo_cibil
                            + artifact["ML_WEIGHT"] * result.ml_predicted_cibil,
                          WeightScale * 100)
        IN /\ result.ml_predicted_cibil \in 0..(100 * 100)
           /\ result.final_cibil_score \in 0..(100 * 100)
           /\ result.final_cibil_score = Round2(ClipToPercent(blend))

\* A model that answers 150 was blended as 100.
C16_Witness ==
    /\ artifact # None
    /\ artifact["model"] = Regressor(Frac(150, 1), 0)
    /\ \E i \in Results : calls[i].outcome.ml_predicted_cibil = 100 * 100

\* The scores at and around the edges of the bands, in hundredths.
BandEdges ==
    {0, 1, 3999, 4000, 4001, 5999, 6000, 6001, 7999, 8000, 8001, 9999, 10000}

BandRank(label) ==
    CASE label = "Critical" -> 1
      [] label = "Poor" -> 2
      [] label = "Fair" -> 3
      [] label = "Good" -> 4

\* C17: banding is exhaustive and monotonic, and the inference scorer's
\* half-open bins with the last label as fallback give the band of the batch
\* scorer for every score, 40, 60, 80 and 100 included.
C17_BandingAgrees ==
    /\ _predictor # None =>
          /\ \A s \in BandEdges :
                /\ _assign_condition(_predictor, s) = assign_condition_category(s)
                /\ _assign_condition(_predictor, s)
                      \in {"Critical", "Poor", "Fair", "Good"}
          /\ \A s, t \in BandEdges :
                s <= t => BandRank(_assign_condition(_predictor, s))
                             <= BandRank(_assign_condition(_predictor, t))
    /\ \A i \in Results :
          calls[i].outcome.condition_category =
              assign_condition_category(calls[i].outcome.final_cibil_score)

\* A road was scored 100 exactly, which no half-open bin holds, and banded
\* Good.
C17_Witness ==
    \E i \in Results :
        /\ calls[i].outcome.final_cibil_score = 100 * 100
        /\ calls[i].outcome.condition_category = "Good"

\* C18: a scorer whose blend weights do not sum to 1.0 cannot be constructed:
\* the batch blend fails on such weights and no predictor is loaded with them.
C18_WeightsMustSumToOne ==
    /\ \A weights \in HybridWeights :
          weights[1] + weights[2] # WeightScale =>
              compute_hybrid_cibil(50 * 100, Frac(50, 1), weights[1], weights[2])
                  = AssertionError
    /\ _predictor # None => _predictor._pseudo_w + _predictor._ml_w = WeightScale

\* The last response is a failure with this detail.
FailedAs(detail) == "detail" \in DOMAIN response /\ response.detail = detail

\* C19: a scoring request that finds no scorer loaded is answered 503, one
\* whose ML inference raises is answered 500, and neither is answered as a
\* validation error (422) or with a score.
C19_FailuresAreDistinguishable ==
    response.kind = "score" =>
        /\ FailedAs("not loaded") => response.status = 503
        /\ FailedAs("inference") => response.status = 500
        /\ response.status = 422 => FailedAs("validation")
        /\ response.status = 200 =>
              /\ _predictor # None
              /\ "raised" \notin DOMAIN calls[Len(calls)].outcome
              /\ "raised" \notin DOMAIN ModelPredict(_predictor._model, calls[Len(calls)].raw)

-----------------------------------------------------------------------------
(* Claims about the health adjustment (SpecHealth) *)

NonNegative(x) == FracLe(Frac(0, 1), x)

\* C21: compute_road_health_adjustment returns clip(base - volume * 10 -
\* rut * 0.5 - damage * 5, 0, 100): the result is within [0, 100], it does not
\* exceed a base score within [0, 100] when the penalties are non-negative, and
\* base 80, volume 2, rut 10, damage 4 give 35.
C21_HealthAdjustmentIsClipped ==
    response.kind = "adjustment" =>
        LET raw == Frac(response.base_score.n * 2 * response.pothole_total_volume_m3.d
                            * response.avg_rut_depth_mm.d * response.damaged_area_percent.d
                        - 20 * response.pothole_total_volume_m3.n * response.base_score.d
                            * response.avg_rut_depth_mm.d * response.damaged_area_percent.d
                        - response.avg_rut_depth_mm.n * response.base_score.d
                            * response.pothole_total_volume_m3.d
                            * response.damaged_area_percent.d
                        - 10 * response.damaged_area_percent.n * response.base_score.d
                            * response.pothole_total_volume_m3.d
                            * response.avg_rut_depth_mm.d,
                        2 * response.base_score.d * response.pothole_total_volume_m3.d
                            * response.avg_rut_depth_mm.d * response.damaged_area_percent.d)
        IN /\ response.score = ClipToPercent(raw)
           /\ InZeroToHundred(response.score)
           /\ (/\ InZeroToHundred(response.base_score)
               /\ NonNegative(response.pothole_total_volume_m3)
               /\ NonNegative(response.avg_rut_depth_mm)
               /\ NonNegative(response.damaged_area_percent))
                  => FracLe(response.score, response.base_score)
           /\ (/\ response.base_score = Frac(80, 1)
               /\ response.pothole_total_volume_m3 = Frac(2, 1)
               /\ response.avg_rut_depth_mm = Frac(10, 1)
               /\ response.damaged_area_percent = Frac(4, 1))
                  => response.score = Frac(35, 1)

\* The adjustment of the test: 80 with volume 2, rut 10 and damage 4 gave 35.
C21_Witness ==
    /\ response.kind = "adjustment"
    /\ response.base_score = Frac(80, 1)
    /\ response.pothole_total_volume_m3 = Frac(2, 1)
    /\ response.avg_rut_depth_mm = Frac(10, 1)
    /\ response.damaged_area_percent = Frac(4, 1)
    /\ response.score = Frac(35, 1)

-----------------------------------------------------------------------------
(* Further claims about the budget simulation (SpecBudget) *)

SeverityWeight(severity) ==
    CASE severity = "critical" -> 4
      [] severity = "high" -> 3
      [] severity = "medium" -> 2
      [] severity = "low" -> 1

\* severityWeight * trafficWeight (1.0) * max(0.01, volume), the volume and the
\* 0.01 in 1/VolScale cubic metres.
PriorityOf(wo) ==
    SeverityWeight(wo.severity)
        * (IF wo.estimated_repair_volume_m3 > VolScale \div 100
           THEN wo.estimated_repair_volume_m3 ELSE VolScale \div 100)

\* The stored work order a selected entry stands for.
StoredOrder(entry) == CHOOSE wo \in {workOrders[k] : k \in DOMAIN workOrders} :
                          wo.id = entry.work_order_id

\* A list of selected entries runs by falling priority, the newer order first
\* among equals.
InPriorityOrder(selected) ==
    \A i, j \in DOMAIN selected :
        i < j =>
            LET first == StoredOrder(selected[i])
                second == StoredOrder(selected[j])
            IN \/ PriorityOf(first) > PriorityOf(second)
               \/ /\ PriorityOf(first) = PriorityOf(second)
                  /\ first.created_at > second.created_at

\* C22: the selected work orders are in non-increasing order of priority =
\* severityWeight * trafficWeight * max(0.01, volume), with weights critical 4,
\* high 3, medium 2, low 1, and orders of equal priority are in their input
\* order, the most recently created first.
C22_SelectedByFallingPriority ==
    /\ InPriorityOrder(bSelected)
    /\ response.kind = "budget" => InPriorityOrder(response.work_orders)

\* A response selected, in this order, a newer order, an older one of the same
\* priority and one of a lower priority.
C22_Witness ==
    /\ response.kind = "budget"
    /\ \E i, j \in DOMAIN response.work_orders :
          /\ i < j
          /\ PriorityOf(StoredOrder(response.work_orders[i]))
                = PriorityOf(StoredOrder(response.work_orders[j]))
          /\ StoredOrder(response.work_orders[i]).severity
                # StoredOrder(response.work_orders[j]).severity
    /\ \E i, j \in DOMAIN response.work_orders :
          /\ i < j
          /\ PriorityOf(StoredOrder(response.work_orders[i]))
                > PriorityOf(StoredOrder(response.work_orders[j]))

\* The stored orders of a status, ranked by falling priority, the newer first
\* among equals: the k-th is the one with k - 1 orders ahead of it.
Ahead(first, second) ==
    \/ PriorityOf(first) > PriorityOf(second)
    \/ PriorityOf(first) = PriorityOf(second) /\ first.created_at > second.created_at

RankedPending(tbl) ==
    LET pending == {tbl[i] : i \in {k \in DOMAIN tbl : tbl[k].status = "pending"}}
    IN [p \in 1..Cardinality(pending) |->
           CHOOSE wo \in pending :
               Cardinality({other \in pending : Ahead(other, wo)}) = p - 1]

\* The longest prefix of ranked orders whose running total stays within the
\* budget.
FundedCount(orders, budget) ==
    LET fitting == {k \in 0..Len(orders) : PrefixFits(Costs(orders), k, budget)}
    IN CHOOSE k \in fitting : \A other \in fitting : other <= k

Simulation(tbl, budget) ==
    LET ranked == RankedPending(tbl)
    IN [k \in 1..FundedCount(ranked, budget) |->
           [work_order_id |-> ranked[k].id,
            road_id |-> ranked[k].road_id,
            severity |-> ranked[k].severity,
            estimated_cost |-> ranked[k].estimated_cost,
            recommended_action |-> ranked[k].recommended_action]]

\* C23: a budget simulation considers only the work orders whose status is
\* pending and leaves every stored work order and the set of them unchanged;
\* its result depends on the stored orders and the budget only, however many
\* simulations with whatever budgets ran before.
C23_SimulationReadsPendingOnly ==
    [][budgetVars' # budgetVars =>
          /\ workOrders' = workOrders
          /\ \A i \in DOMAIN bOrders' :
                /\ bOrders'[i].status = "pending"
                /\ \E k \in DOMAIN workOrders : workOrders[k] = bOrders'[i]
          /\ response'.kind = "budget" =>
                /\ response'.work_orders = Simulation(workOrders', response'.budget)
                /\ \A i \in DOMAIN response'.work_orders :
                      StoredOrder(response'.work_orders[i]).status = "pending"]_vars

\* A simulation funded an order while a stored order of a higher priority, no
\* longer pending, was left out.
C23_Witness ==
    /\ response.kind = "budget"
    /\ \E i \in DOMAIN response.work_orders, k \in DOMAIN workOrders :
          /\ workOrders[k].status # "pending"
          /\ PriorityOf(workOrders[k]) > PriorityOf(StoredOrder(response.work_orders[i]))
          /\ workOrders[k].estimated_cost <= response.remaining

\* The selection of a non-concurrent run over a snapshot of ranked orders.
SelectionOver(snapshot, budget) ==
    [k \in 1..FundedCount(snapshot, budget) |->
        [work_order_id |-> snapshot[k].id,
         road_id |-> snapshot[k].road_id,
         severity |-> snapshot[k].severity,
         estimated_cost |-> snapshot[k].estimated_cost,
         recommended_action |-> snapshot[k].recommended_action]]

\* C24: an allocation run computes its selection from one snapshot of the
\* pending work orders, read in a single query: the snapshot stays as read
\* while other requests commit work orders, an order committed after the read
\* is neither selected nor counted in spent, and the result is that of a
\* non-concurrent run over the snapshot.
C24_SelectionFromOneSnapshot ==
    [][/\ (bPc = "idle" /\ bPc' # "idle") => bOrders' = RankedPending(workOrders)
       /\ (bPc # "idle" /\ bPc' # "idle") => bOrders' = bOrders
       /\ (bPc # "idle" /\ bPc' = "idle") =>
             LET selection == SelectionOver(bOrders, bBudget)
             IN /\ response'.work_orders = selection
                /\ response'.work_orders_count = Len(selection)
                /\ response'.spent =
                      RoundMoney2(SumFirst(Costs(bOrders), Len(selection)))]_vars

\* A response left out a pending order that a run over the database as it is
\* now would fund: the order was committed while the run was under way.
C24_Witness ==
    /\ response.kind = "budget"
    /\ response.work_orders # Simulation(workOrders, response.budget)
    /\ Len(response.work_orders) > 0

-----------------------------------------------------------------------------
(* Claims about the work orders over every operation (SpecOperations) *)

\* C25: every work order is created with status pending, and no operation
\* (upload, seeding, budget simulation, repair verification, listing) changes
\* the status of an existing work order.
C25_StatusPendingAndUntouched ==
    [][/\ \A i \in DOMAIN workOrders :
             /\ i \in DOMAIN workOrders'
             /\ workOrders'[i].id = workOrders[i].id
             /\ workOrders'[i].status = workOrders[i].status
       /\ \A i \in DOMAIN workOrders' :
             i \notin DOMAIN workOrders => workOrders'[i].status = "pending"]_vars

\* After seeding twice, a verification and an upload, a listing shows several
\* work orders, all of them pending.
C25_Witness ==
    /\ response.kind = "workorders"
    /\ Len(response.items) >= 2
    /\ \A i \in DOMAIN response.items : response.items[i].status = "pending"
    /\ Len(workOrders) >= 2
    /\ seedRuns = 2
    /\ uploads > 0
    /\ perfLog # <<>>

-----------------------------------------------------------------------------
(* Further claims about ingestion (SpecIngest) *)

\* The work orders stored for the scan of a metrics row.
OrdersOfScan(m) == {workOrders[j] : j \in {k \in DOMAIN workOrders :
                                              workOrders[k].scan_id = m.scan_id}}

\* C26: a scan with rut depth > 12 while depth <= 80 and damaged area < 1.0
\* produces a work order, and that work order is low with action patch and an
\* SLA of 60 days: rut depth triggers creation and never raises the severity.
C26_RutAloneGivesLowOrder ==
    \A i \in DOMAIN metrics :
        (/\ metrics[i].avg_rut_depth_mm > 12
         /\ metrics[i].max_pothole_depth_mm <= 80
         /\ metrics[i].damaged_area_percent < 1 * PctScale)
            => /\ OrdersOfScan(metrics[i]) # {}
               /\ \A wo \in OrdersOfScan(metrics[i]) :
                     /\ wo.severity = "low"
                     /\ wo.recommended_action = "patch"
                     /\ wo.sla_days = 60

\* A scan with rut 13, depth 80 and 0.9 % damaged area has a low work order.
C26_Witness ==
    \E i \in DOMAIN metrics :
        /\ metrics[i].avg_rut_depth_mm = 13
        /\ metrics[i].max_pothole_depth_mm = 80
        /\ metrics[i].damaged_area_percent = 9
        /\ \E wo \in OrdersOfScan(metrics[i]) :
              wo.severity = "low" /\ wo.recommended_action = "patch" /\ wo.sla_days = 60

\* C29: every work order of severity medium was triggered by rut depth only:
\* its scan has rut depth > 12, depth <= 80 and 1.0 <= damaged area <= 2.0; a
\* scan that triggers because its damaged area is in (2.0, 5.0] with depth <= 80
\* is classified low, never medium.
C29_MediumOnlyByRut ==
    \A i \in DOMAIN metrics :
        \A wo \in OrdersOfScan(metrics[i]) :
            /\ wo.severity = "medium" =>
                  /\ metrics[i].avg_rut_depth_mm > 12
                  /\ metrics[i].max_pothole_depth_mm <= 80
                  /\ 1 * PctScale <= metrics[i].damaged_area_percent
                  /\ metrics[i].damaged_area_percent <= 2 * PctScale
            /\ (/\ 2 * PctScale < metrics[i].damaged_area_percent
                /\ metrics[i].damaged_area_percent <= 5 * PctScale
                /\ metrics[i].max_pothole_depth_mm <= 80)
                  => wo.severity = "low"

\* A scan with rut 13, depth 80 and 2.0 % damaged area has a medium work order.
C29_Witness ==
    \E i \in DOMAIN metrics :
        /\ metrics[i].avg_rut_depth_mm = 13
        /\ metrics[i].damaged_area_percent = 2 * PctScale
        /\ metrics[i].max_pothole_depth_mm = 80
        /\ \E wo \in OrdersOfScan(metrics[i]) : wo.severity = "medium"

\* C27: every alert of type work_order_created that upload or seeding stores
\* carries the id of the work order it announces: its work_order_id is not
\* null and is the stored id of exactly one work order, of the same road.
C27_AlertCarriesWorkOrderId ==
    \A i \in DOMAIN alerts :
        alerts[i].alert_type = "work_order_created" =>
            /\ alerts[i].work_order_id # None
            /\ Cardinality({j \in DOMAIN workOrders :
                               /\ workOrders[j].id = alerts[i].work_order_id
                               /\ workOrders[j].road_id = alerts[i].road_id}) = 1

-----------------------------------------------------------------------------
(* Further claims about the budget loop (SpecBudget) *)

\* The sum of the costs of a list of selected entries.
RECURSIVE SelectedCost(_)
SelectedCost(selected) ==
    IF selected = <<>>
    THEN 0
    ELSE selected[1].estimated_cost + SelectedCost(Tail(selected))

NonNegativeCosts(orders) == \A i \in DOMAIN orders : orders[i].estimated_cost >= 0

\* C28: for every budget >= 0 and pending orders with non-negative costs,
\* spent <= budget holds after every iteration of the loop, spent is the sum of
\* the costs of the selected orders, and the returned remaining is >= 0.
C28_SpentWithinBudget ==
    /\ (bPc \in {"loop", "break"} /\ bBudget >= 0 /\ NonNegativeCosts(bOrders)) =>
          /\ bSpent <= bBudget
          /\ bSpent = SelectedCost(bSelected)
    /\ (/\ response.kind = "budget"
        /\ response.budget >= 0
        /\ NonNegativeCosts(SelectSeq(workOrders, IsPending))) =>
          /\ response.remaining >= 0
          /\ response.spent = RoundMoney2(SelectedCost(response.work_orders))
          /\ response.remaining = RoundMoney2(response.budget - SelectedCost(response.work_orders))

\* A run with budget 140 funded orders of 100 and 30 and returned 10.
C28_Witness ==
    /\ response.kind = "budget"
    /\ response.budget = Rupees(140)
    /\ response.spent = Rupees(130)
    /\ response.remaining = Rupees(10)
    /\ \E i, j \in DOMAIN response.work_orders :
          /\ response.work_orders[i].estimated_cost = Rupees(100)
          /\ response.work_orders[j].estimated_cost = Rupees(30)

-----------------------------------------------------------------------------
(* Further claims about repair verification (SpecVerify) *)

\* C30: in every verify-repair response the contractor_flagged field agrees
\* with the improvement_percent field of the same response: it is true exactly
\* when the returned improvement, rounded to 2 decimals, is below 90, also for
\* an improvement such as 89.996 that rounds to 90.00.
C30_FlagAgreesWithReturnedImprovement ==
    (response.kind = "verify" /\ response.status = 200) =>
        (response.contractor_flagged <=> response.improvement_percent < 90 * 100)

====
